---- MODULE Spec2Model ----
(***************************************************************************)
(* Model of send_slack.py: the Slack notifier for new union papers.        *)
(*                                                                         *)
(* A Python str is a sequence of one-character strings. The two emoji of   *)
(* the message are single code points and are written as the one-element   *)
(* tokens "U+1F4C4" and "U+1F4C5". A bytes object (HTTP body) is a         *)
(* sequence of byte values 0..255.                                         *)
(***************************************************************************)
EXTENDS Integers, Sequences, FiniteSets, TLC

(* ------------------------------ bounds -------------------------------- *)
NumIds == 3          \* how many distinct openalex ids occur
NumDates == 3        \* how many distinct publication dates occur
MaxPapers == 2       \* rows of the pending file
MaxLedger == 2       \* id rows of the ledger file before the first run
MaxRuns == 2         \* invocations of the script
MaxLen == 5          \* length of the strings given to escape_slack_text
MaxFmtPapers == 2    \* papers given to format_slack_message on its own
MaxReadPapers == 3   \* rows of the pending file read on its own

(* ------------------------- strings and order --------------------------- *)
\* Code points of the characters that take part in an ordering comparison.
Code ==
  [c \in {"-", "0", "1", "2", "3", "4", "5", "W"} |->
     CASE c = "-" -> 45 [] c = "0" -> 48 [] c = "1" -> 49 [] c = "2" -> 50
       [] c = "3" -> 51 [] c = "4" -> 52 [] c = "5" -> 53 [] c = "W" -> 87]

\* Python's str "<": lexical by code point, a proper prefix is smaller.
RECURSIVE StrLess(_, _)
StrLess(a, b) ==
  IF b = <<>> THEN FALSE
  ELSE IF a = <<>> THEN TRUE
  ELSE IF Code[Head(a)] < Code[Head(b)] THEN TRUE
  ELSE IF Code[Head(a)] > Code[Head(b)] THEN FALSE
  ELSE StrLess(Tail(a), Tail(b))

\* str(n) for a natural number n.
RECURSIVE IntToStr(_)
IntToStr(n) ==
  LET d == <<"0", "1", "2", "3", "4", "5", "6", "7", "8", "9">>
  IN  IF n < 10 THEN <<d[n + 1]>>
      ELSE IntToStr(n \div 10) \o <<d[(n % 10) + 1]>>

\* All sequences over S of length at most n.
SeqsUpTo(S, n) == UNION {[1..k -> S] : k \in 0..n}

\* The first n entries of a pool.
TakeN(pool, n) == {pool[i] : i \in 1..(IF n < Len(pool) THEN n ELSE Len(pool))}

\* s contains t as a contiguous substring (Python's "t in s").
Contains(s, t) ==
  \E i \in 0..(Len(s) - Len(t)) : \A j \in 1..Len(t) : s[i + j] = t[j]

(* ------------------------------ inputs -------------------------------- *)
IdPool == << <<"W", "3">>, <<"W", "1">>, <<"W", "1", "0">>, <<"W", "2">> >>
DatePool ==
  << <<>>,
     <<"2", "0", "2", "4", "-", "0", "1", "-", "0", "1">>,
     <<"2", "0", "2", "4", "-", "0", "3", "-", "0", "1">>,
     <<"2", "0", "2", "4", "-", "0", "3">> >>
Ids == TakeN(IdPool, NumIds)
Dates == TakeN(DatePool, NumDates)

\* One row of union_papers_to_email.csv as csv.DictReader yields it.
Paper(id, title, authors, journal, doi, date) ==
  [openalex_id |-> id, title |-> title, authors |-> authors,
   journal |-> journal, doi |-> doi, publication_date |-> date]

DoiUrl == <<"h", "t", "t", "p", "s", ":", "/", "/", "d", "/", "x">>

\* Rows of the pending file in the runs of main: each id with its own date.
PendingRows ==
  {Paper(IdPool[i], <<"T">>, <<"A">>, <<"J">>, DoiUrl, DatePool[i]) :
     i \in 1..(IF NumIds < Len(IdPool) THEN NumIds ELSE Len(IdPool))}

\* Rows of the pending file when read_papers_to_notify is taken on its own.
ReadRows ==
  {Paper(id, <<"T">>, <<"A">>, <<"J">>, DoiUrl, d) : id \in Ids, d \in Dates}

\* A file is absent, or present with its rows.
NoFile == [exists |-> FALSE, rows |-> <<>>]
File(rows) == [exists |-> TRUE, rows |-> rows]

PendingFiles == {NoFile} \cup {File(r) : r \in SeqsUpTo(PendingRows, MaxPapers)}

\* The header row of emailed_papers.csv.
LedgerHeader == <<"o", "p", "e", "n", "a", "l", "e", "x", "_", "i", "d">>

\* Ledger files: absent, or the header followed by id rows in any order.
LedgerFiles ==
  {NoFile} \cup {File(<<LedgerHeader>> \o r) : r \in SeqsUpTo(Ids, MaxLedger)}

\* SLACK_WEBHOOK_URL: unset, empty, without a scheme, or a URL.
WebhookUrl == <<"h", "t", "t", "p", "s", ":", "/", "/", "h">>
NoEnv == [set |-> FALSE, value |-> <<>>]
Env(v) == [set |-> TRUE, value |-> v]
WebhookEnvs == {NoEnv, Env(<<>>), Env(<<"x">>), Env(WebhookUrl)}

(* ---------------------------- Record Store ---------------------------- *)
\* list.sort(key=..., reverse=True) places r behind every element whose key
\* is not smaller than its own: the sort is stable.
RECURSIVE InsertByDateDesc(_, _)
InsertByDateDesc(r, s) ==
  IF s = <<>> THEN <<r>>
  ELSE IF StrLess(Head(s).publication_date, r.publication_date)
       THEN <<r>> \o s
       ELSE <<Head(s)>> \o InsertByDateDesc(r, Tail(s))

RECURSIVE SortByDateDesc(_, _)
SortByDateDesc(acc, rest) ==
  IF rest = <<>> THEN acc
  ELSE SortByDateDesc(InsertByDateDesc(Head(rest), acc), Tail(rest))

\* Variant: the rows are returned in file order.
read_papers_to_notify_unsorted(file) ==
  IF ~file.exists THEN <<>> ELSE file.rows

read_papers_to_notify(file) ==
  IF ~file.exists THEN <<>> ELSE SortByDateDesc(<<>>, file.rows)

\* csv.DictReader takes the first row as the field names; every further row
\* gives its openalex_id.
read_emailed_papers(file) ==
  IF ~file.exists THEN {} ELSE {file.rows[i] : i \in 2..Len(file.rows)}

\* sorted(S) for a set of str.
RECURSIVE Sorted(_)
Sorted(S) ==
  IF S = {} THEN <<>>
  ELSE LET m == CHOOSE x \in S : \A y \in S \ {x} : StrLess(x, y)
       IN  <<m>> \o Sorted(S \ {m})

\* Variant: the new ids are appended to the rows already in the file.
update_emailed_papers_append(papers, file) ==
  File((IF file.exists THEN file.rows ELSE <<LedgerHeader>>)
       \o [i \in 1..Len(papers) |-> papers[i].openalex_id])

\* The file update_emailed_papers leaves behind.
update_emailed_papers(papers, file) ==
  LET emailed_ids ==
        read_emailed_papers(file) \cup
        {papers[i].openalex_id : i \in 1..Len(papers)}
  IN  File(<<LedgerHeader>> \o Sorted(emailed_ids))

(* -------------------------- Message Formatter -------------------------- *)
\* str.replace(old, new) for a one-character old.
RECURSIVE Replace(_, _, _)
Replace(text, old, new) ==
  IF text = <<>> THEN <<>>
  ELSE (IF Head(text) = old THEN new ELSE <<Head(text)>>)
       \o Replace(Tail(text), old, new)

AmpEntity == <<"&", "a", "m", "p", ";">>
LtEntity == <<"&", "l", "t", ";">>
GtEntity == <<"&", "g", "t", ";">>

\* Variant: the ampersand is replaced last.
escape_slack_text_ampLast(text) ==
  IF text = <<>> THEN <<>>
  ELSE Replace(Replace(Replace(text, "<", LtEntity), ">", GtEntity),
               "&", AmpEntity)

escape_slack_text(text) ==
  IF text = <<>> THEN <<>>
  ELSE Replace(Replace(Replace(text, "&", AmpEntity), "<", LtEntity),
               ">", GtEntity)

DocEmoji == <<"U+1F4C4", " ">>
DateEmoji == <<"U+1F4C5", " ">>
Separator == <<" ", " ", "|", " ", " ">>

\* The mrkdwn text of one paper block.
paper_text(paper) ==
  LET title == escape_slack_text(paper.title)
      authors == escape_slack_text(paper.authors)
      journal == escape_slack_text(paper.journal)
      doi == paper.doi
      publication_date == paper.publication_date
      head == <<"*">> \o authors \o <<"*", "\n", "_">> \o title \o <<"_", "\n">>
      jseg == IF doi # <<>> /\ journal # <<>>
                THEN DocEmoji \o <<"<">> \o doi \o <<"|">> \o journal \o <<">">>
              ELSE IF journal # <<>> THEN DocEmoji \o journal
              ELSE <<>>
      dseg == IF publication_date # <<>>
                THEN IF doi # <<>> \/ journal # <<>>
                       THEN Separator \o DateEmoji \o publication_date
                       ELSE DateEmoji \o publication_date
              ELSE <<>>
  IN  head \o jseg \o dseg

\* The payload; now is datetime.now() formatted as "%B %d, %Y".
format_slack_message(papers, now) ==
  LET paper_count == Len(papers)
      paper_word == IF paper_count = 1 THEN "paper" ELSE "papers"
      have_word == IF paper_count = 1 THEN "has" ELSE "have"
  IN  [text |-> <<"New union papers for the week ending ", now>>,
       blocks |->
         << [type |-> "header", text |-> <<"New Union Papers Detected">>],
            [type |-> "section",
             text |-> <<"The following *">> \o IntToStr(paper_count)
                      \o <<" new ", paper_word, "* ", have_word,
                           " been added to the list:">>],
            [type |-> "divider", text |-> <<>>] >>
         \o [i \in 1..Len(papers) |->
               [type |-> "section", text |-> paper_text(papers[i])]]
         \o << [type |-> "divider", text |-> <<>>],
               [type |-> "context", text |-> <<"_Automated notification_">>] >>]

(* ------------------------------ Notifier ------------------------------- *)
\* urllib.request.Request raises ValueError("unknown url type") for a URL
\* that does not start with "<scheme>:".
HasScheme(url) ==
  \E i \in 2..Len(url) :
    url[i] = ":" /\ \A j \in 1..(i - 1) : url[j] \notin {":", "/"}

\* bytes.decode('utf-8') of the modelled bodies: ASCII bytes decode to their
\* characters; 0xFF occurs in no UTF-8 sequence and raises UnicodeDecodeError.
Ascii == [b \in {10, 75, 79, 107, 111} |->
            CASE b = 10 -> "\n" [] b = 75 -> "K" [] b = 79 -> "O"
              [] b = 107 -> "k" [] b = 111 -> "o"]
Decodable(bytes) == \A i \in 1..Len(bytes) : bytes[i] \in DOMAIN Ascii
Decode(bytes) == [i \in 1..Len(bytes) |-> Ascii[bytes[i]]]

\* What the network does with the request: a transport error (URLError), any
\* other exception out of urlopen, or an HTTP exchange with a status, the
\* bytes of the body, and whether reading the body succeeds.
Bodies == { <<111, 107>>, <<79, 75>>, <<111, 107, 10>>, <<255>> }
Statuses == {200, 201, 500}
Nets ==
  {[kind |-> k, status |-> 0, body |-> <<>>, readOK |-> TRUE] :
     k \in {"urlerror", "exception"}}
  \cup [kind : {"http"}, status : Statuses, body : Bodies, readOK : {TRUE}]
  \cup [kind : {"http"}, status : Statuses, body : {<<>>}, readOK : BOOLEAN]

\* Variant: every 2xx response counts as delivered.
send_slack_message_any2xx(webhook_url, message, net) ==
  IF ~HasScheme(webhook_url)
    THEN [ret |-> "False", requests |-> 0]
  ELSE IF net.kind = "urlerror" \/ net.kind = "exception"
    THEN [ret |-> "False", requests |-> 1]
  ELSE IF net.status \in 200..299
    THEN IF ~net.readOK \/ ~Decodable(net.body)
           THEN [ret |-> "False", requests |-> 1]
           ELSE [ret |-> "True", requests |-> 1]
  ELSE IF ~net.readOK \/ ~Decodable(net.body)
         THEN [ret |-> "raise", requests |-> 1]
         ELSE [ret |-> "False", requests |-> 1]

\* send_slack_message: ret is "True", "False", or "raise" when an exception
\* leaves the function; requests counts the HTTP requests issued.
send_slack_message(webhook_url, message, net) ==
  IF ~HasScheme(webhook_url)
    THEN [ret |-> "False", requests |-> 0]
  ELSE IF net.kind = "urlerror" \/ net.kind = "exception"
    THEN [ret |-> "False", requests |-> 1]
  ELSE IF net.status \in 200..299
    THEN \* urlopen returns the response
         IF ~net.readOK \/ ~Decodable(net.body)
           THEN [ret |-> "False", requests |-> 1]
         ELSE IF net.status = 200 /\ Decode(net.body) = <<"o", "k">>
           THEN [ret |-> "True", requests |-> 1]
         ELSE [ret |-> "False", requests |-> 1]
  ELSE \* urlopen raises HTTPError; the handler reads and decodes the body
       IF ~net.readOK \/ ~Decodable(net.body)
         THEN [ret |-> "raise", requests |-> 1]
         ELSE [ret |-> "False", requests |-> 1]

(* ----------------------------- the program ---------------------------- *)
VARIABLES
  pendingFile,   \* union_papers_to_email.csv
  ledgerFile,    \* emailed_papers.csv
  env,           \* SLACK_WEBHOOK_URL in the environment
  pc,            \* position of main
  papers,        \* main's papers
  webhook_url,   \* main's webhook_url (os.getenv's result)
  message,       \* main's message
  success,       \* main's success
  exitCode,      \* exit status of the process, -1 while it runs
  net,           \* what the network did with the request of this run
  sendRet,       \* how send_slack_message ended in this run
  sendCalls,     \* calls of send_slack_message in this run
  requests,      \* HTTP requests issued in this run
  updateCalls,   \* calls of update_emailed_papers in this run
  ledgerBefore,  \* the ledger file when this run started
  runNo,         \* number of this invocation
  prevOK,        \* the previous run delivered and updated the ledger
  text,          \* argument of escape_slack_text
  escaped,       \* its result
  escDone,       \* it has returned
  fmtPapers,     \* argument of format_slack_message
  fmtMessage,    \* its result
  fmtDone        \* it has returned

fileVars == <<pendingFile, ledgerFile, env>>
procVars == <<pc, papers, webhook_url, message, success, exitCode>>
ghostVars ==
  <<net, sendRet, sendCalls, requests, updateCalls, ledgerBefore, runNo, prevOK>>
mainVars == <<fileVars, procVars, ghostVars>>
escVars == <<text, escaped, escDone>>
fmtVars == <<fmtPapers, fmtMessage, fmtDone>>
vars == <<mainVars, escVars, fmtVars>>

NoMessage == [text |-> <<>>, blocks |-> <<>>]
NoNet == [kind |-> "none", status |-> 0, body |-> <<>>, readOK |-> TRUE]
Nows == {"November 02, 2026"}

\* The state of a freshly started process.
ProcStart ==
  /\ pc = "start"
  /\ papers = <<>>
  /\ webhook_url = NoEnv
  /\ message = NoMessage
  /\ success = FALSE
  /\ exitCode = -1
  /\ net = NoNet
  /\ sendRet = "none"
  /\ sendCalls = 0
  /\ requests = 0
  /\ updateCalls = 0

EscIdle == text = <<>> /\ escaped = <<>> /\ escDone = FALSE
FmtIdle == fmtPapers = <<>> /\ fmtMessage = NoMessage /\ fmtDone = FALSE

Init ==
  /\ pendingFile \in PendingFiles
  /\ ledgerFile \in LedgerFiles
  /\ env \in WebhookEnvs
  /\ ProcStart
  /\ ledgerBefore = ledgerFile
  /\ runNo = 1
  /\ prevOK = FALSE
  /\ EscIdle
  /\ FmtIdle

\* papers = read_papers_to_notify()
ReadPapers ==
  /\ pc = "start"
  /\ papers' = read_papers_to_notify(pendingFile)
  /\ pc' = "read"
  /\ UNCHANGED <<fileVars, webhook_url, message, success, exitCode, ghostVars,
                 escVars, fmtVars>>

\* if not papers: sys.exit(0)
ExitNoPapers ==
  /\ pc = "read"
  /\ papers = <<>>
  /\ exitCode' = 0
  /\ pc' = "exited"
  /\ UNCHANGED <<fileVars, papers, webhook_url, message, success, net, sendRet,
                 sendCalls, requests, updateCalls, ledgerBefore, runNo, prevOK,
                 escVars, fmtVars>>

\* webhook_url = os.getenv('SLACK_WEBHOOK_URL')
GetWebhook ==
  /\ pc = "read"
  /\ papers # <<>>
  /\ webhook_url' = env
  /\ pc' = "configured"
  /\ UNCHANGED <<fileVars, papers, message, success, exitCode, ghostVars,
                 escVars, fmtVars>>

\* Variant: the missing configuration ends the run with status 0.
ExitNoWebhook_exit0 ==
  /\ pc = "configured"
  /\ (~webhook_url.set \/ webhook_url.value = <<>>)
  /\ exitCode' = 0
  /\ pc' = "exited"
  /\ UNCHANGED <<fileVars, papers, webhook_url, message, success, net, sendRet,
                 sendCalls, requests, updateCalls, ledgerBefore, runNo, prevOK,
                 escVars, fmtVars>>

\* if not webhook_url: sys.exit(1)
ExitNoWebhook ==
  /\ pc = "configured"
  /\ (~webhook_url.set \/ webhook_url.value = <<>>)
  /\ exitCode' = 1
  /\ pc' = "exited"
  /\ UNCHANGED <<fileVars, papers, webhook_url, message, success, net, sendRet,
                 sendCalls, requests, updateCalls, ledgerBefore, runNo, prevOK,
                 escVars, fmtVars>>

\* message = format_slack_message(papers)
Format ==
  /\ pc = "configured"
  /\ webhook_url.set /\ webhook_url.value # <<>>
  /\ \E now \in Nows : message' = format_slack_message(papers, now)
  /\ pc' = "formatted"
  /\ UNCHANGED <<fileVars, papers, webhook_url, success, exitCode, ghostVars,
                 escVars, fmtVars>>

\* success = send_slack_message(webhook_url, message)
Send ==
  /\ pc = "formatted"
  /\ \E n \in Nets :
       LET r == send_slack_message(webhook_url.value, message, n)
       IN  /\ net' = (IF r.requests = 0 THEN NoNet ELSE n)
           /\ sendRet' = r.ret
           /\ sendCalls' = sendCalls + 1
           /\ requests' = requests + r.requests
           /\ success' = (r.ret = "True")
           /\ pc' = (IF r.ret = "raise" THEN "raised" ELSE "sent")
  /\ UNCHANGED <<fileVars, papers, webhook_url, message, exitCode, updateCalls,
                 ledgerBefore, runNo, prevOK, escVars, fmtVars>>

\* Variant: a failed delivery is tried again.
ExitSendFailed_retry ==
  /\ pc = "sent"
  /\ ~success
  /\ pc' = "formatted"
  /\ UNCHANGED <<fileVars, papers, webhook_url, message, success, exitCode,
                 ghostVars, escVars, fmtVars>>

\* if not success: sys.exit(1)
ExitSendFailed ==
  /\ pc = "sent"
  /\ ~success
  /\ exitCode' = 1
  /\ pc' = "exited"
  /\ UNCHANGED <<fileVars, papers, webhook_url, message, success, net, sendRet,
                 sendCalls, requests, updateCalls, ledgerBefore, runNo, prevOK,
                 escVars, fmtVars>>

\* Variant: the ledger is updated whatever the delivery returned.
UpdateLedger_unguarded ==
  /\ pc = "sent"
  /\ ledgerFile' = update_emailed_papers(papers, ledgerFile)
  /\ updateCalls' = updateCalls + 1
  /\ pc' = "updated"
  /\ UNCHANGED <<pendingFile, env, papers, webhook_url, message, success,
                 exitCode, net, sendRet, sendCalls, requests, ledgerBefore,
                 runNo, prevOK, escVars, fmtVars>>

\* update_emailed_papers(papers)
UpdateLedger ==
  /\ pc = "sent"
  /\ success
  /\ ledgerFile' = update_emailed_papers(papers, ledgerFile)
  /\ updateCalls' = updateCalls + 1
  /\ pc' = "updated"
  /\ UNCHANGED <<pendingFile, env, papers, webhook_url, message, success,
                 exitCode, net, sendRet, sendCalls, requests, ledgerBefore,
                 runNo, prevOK, escVars, fmtVars>>

\* main returns; the interpreter exits with status 0
Finish ==
  /\ pc = "updated"
  /\ exitCode' = 0
  /\ pc' = "exited"
  /\ UNCHANGED <<fileVars, papers, webhook_url, message, success, net, sendRet,
                 sendCalls, requests, updateCalls, ledgerBefore, runNo, prevOK,
                 escVars, fmtVars>>

\* an exception leaves main: the interpreter prints the traceback and exits
\* with status 1
Unhandled ==
  /\ pc = "raised"
  /\ exitCode' = 1
  /\ pc' = "exited"
  /\ UNCHANGED <<fileVars, papers, webhook_url, message, success, net, sendRet,
                 sendCalls, requests, updateCalls, ledgerBefore, runNo, prevOK,
                 escVars, fmtVars>>

\* The script is invoked again; the files and the environment are as the
\* previous run left them.
NextRun ==
  /\ pc = "exited"
  /\ runNo < MaxRuns
  /\ pc' = "start"
  /\ papers' = <<>>
  /\ webhook_url' = NoEnv
  /\ message' = NoMessage
  /\ success' = FALSE
  /\ exitCode' = -1
  /\ net' = NoNet
  /\ sendRet' = "none"
  /\ sendCalls' = 0
  /\ requests' = 0
  /\ updateCalls' = 0
  /\ ledgerBefore' = ledgerFile
  /\ runNo' = runNo + 1
  /\ prevOK' = (success /\ updateCalls = 1 /\ exitCode = 0)
  /\ UNCHANGED <<fileVars, escVars, fmtVars>>

Next ==
  \/ ReadPapers
  \/ ExitNoPapers
  \/ GetWebhook
  \/ ExitNoWebhook
  \/ Format
  \/ Send
  \/ ExitSendFailed
  \/ UpdateLedger
  \/ Finish
  \/ Unhandled
  \/ NextRun

Spec == Init /\ [][Next]_vars

(* --------------- escape_slack_text on its own ---------------- *)
EscChars == {"&", "<", ">", "a", "m", "p", ";"}
Texts == SeqsUpTo(EscChars, MaxLen)

\* The main program at rest.
MainIdle ==
  /\ pendingFile = NoFile
  /\ ledgerFile = NoFile
  /\ env = NoEnv
  /\ ProcStart
  /\ ledgerBefore = NoFile
  /\ runNo = 1
  /\ prevOK = FALSE

InitEscape ==
  /\ MainIdle
  /\ FmtIdle
  /\ text \in Texts
  /\ escaped = <<>>
  /\ escDone = FALSE

\* escaped = escape_slack_text(text)
Escape ==
  /\ ~escDone
  /\ escaped' = escape_slack_text(text)
  /\ escDone' = TRUE
  /\ UNCHANGED <<mainVars, fmtVars, text>>

NextEscape == Escape

SpecEscape == InitEscape /\ [][NextEscape]_vars

(* -------------- format_slack_message on its own -------------- *)
FmtRows ==
  {Paper(<<"W", "1">>, <<"T">>, a, j, d, p) :
     a \in {<<"A">>, <<"A", "&", "B">>},
     j \in {<<>>, <<"J">>, <<"<", "J", ">">>},
     d \in {<<>>, DoiUrl},
     p \in Dates}

InitFormat ==
  /\ MainIdle
  /\ EscIdle
  /\ fmtPapers \in SeqsUpTo(FmtRows, MaxFmtPapers) \ {<<>>}
  /\ fmtMessage = NoMessage
  /\ fmtDone = FALSE

\* fmtMessage = format_slack_message(fmtPapers)
FormatOnly ==
  /\ ~fmtDone
  /\ \E now \in Nows : fmtMessage' = format_slack_message(fmtPapers, now)
  /\ fmtDone' = TRUE
  /\ UNCHANGED <<mainVars, escVars, fmtPapers>>

NextFormat == FormatOnly

SpecFormat == InitFormat /\ [][NextFormat]_vars

(* ------------- read_papers_to_notify on its own -------------- *)
InitRead ==
  /\ pendingFile \in
       {NoFile} \cup {File(r) : r \in SeqsUpTo(ReadRows, MaxReadPapers)}
  /\ ledgerFile = NoFile
  /\ env = NoEnv
  /\ ProcStart
  /\ ledgerBefore = NoFile
  /\ runNo = 1
  /\ prevOK = FALSE
  /\ EscIdle
  /\ FmtIdle

NextRead == ReadPapers

SpecRead == InitRead /\ [][NextRead]_vars

(* ------------------------------- claims -------------------------------- *)
OkBytes == <<111, 107>>
PendingRowsOf(file) == IF file.exists THEN file.rows ELSE <<>>
PendingIds == {PendingRowsOf(pendingFile)[i].openalex_id :
                 i \in 1..Len(PendingRowsOf(pendingFile))}
LedgerIds(file) ==
  IF file.exists THEN {file.rows[i] : i \in 2..Len(file.rows)} ELSE {}
ConfigMissing == ~env.set \/ env.value = <<>>

\* C1: when the delivery of a run fails (send_slack_message returns False, or
\* does not return at all), update_emailed_papers is not called, the ledger
\* file is as it was when the run started, and the run exits with status 1.
C1_FailureLeavesLedger ==
  sendRet \in {"False", "raise"} =>
    /\ updateCalls = 0
    /\ ledgerFile = ledgerBefore
    /\ pc \in {"sent", "raised", "exited"}
    /\ pc = "exited" => exitCode = 1

C1_Witness ==
  /\ pc = "exited"
  /\ exitCode = 1
  /\ sendRet = "False"
  /\ net.kind = "http" /\ net.status = 500
  /\ ~ledgerBefore.exists
  /\ ~ledgerFile.exists

\* C2: after the ledger update of a successful run the ledger file is the
\* header row followed by exactly the ids of the ledger before the run united
\* with the ids of the pending records, in strictly ascending lexical order
\* (so each id once, and no former id missing).
C2_LedgerAfterSuccess ==
  (pc \in {"updated", "exited"} /\ success) =>
    /\ ledgerFile.exists
    /\ Len(ledgerFile.rows) >= 1
    /\ ledgerFile.rows[1] = LedgerHeader
    /\ {ledgerFile.rows[i] : i \in 2..Len(ledgerFile.rows)}
         = LedgerIds(ledgerBefore) \cup PendingIds
    /\ \A i \in 2..(Len(ledgerFile.rows) - 1) :
         StrLess(ledgerFile.rows[i], ledgerFile.rows[i + 1])

C2_Witness ==
  /\ pc = "exited"
  /\ success
  /\ ledgerBefore = File(<<LedgerHeader, <<"W", "3">>, <<"W", "1">> >>)
  /\ ledgerFile =
       File(<<LedgerHeader, <<"W", "1">>, <<"W", "1", "0">>, <<"W", "3">> >>)

C4_NeverRaises == sendRet # "raise" /\ pc # "raised"

\* C5: a run that follows a run which delivered and updated the ledger, with
\* the same pending file whose ids are all in the ledger, issues no delivery.
C5_NoRedelivery ==
  (runNo >= 2 /\ prevOK /\ PendingIds \subseteq LedgerIds(ledgerBefore)) =>
    (sendCalls = 0 /\ requests = 0)

\* C6: the exit status is 0 when the pending file is absent or has no rows,
\* else 1 when SLACK_WEBHOOK_URL is unset or empty, else 1 when the delivery
\* failed, else 0; no other status occurs.
C6_ExitCode ==
  /\ exitCode \in {-1, 0, 1}
  /\ pc = "exited" <=> exitCode # -1
  /\ pc = "exited" =>
       exitCode = (IF PendingRowsOf(pendingFile) = <<>> THEN 0
                   ELSE IF ConfigMissing THEN 1
                   ELSE IF sendRet # "True" THEN 1
                   ELSE 0)

C6_Witness ==
  /\ pc = "exited"
  /\ exitCode = 1
  /\ PendingRowsOf(pendingFile) # <<>>
  /\ env = Env(<<>>)

\* C7: a run calls send_slack_message at most once and issues at most one
\* HTTP request; none when the pending set is empty or the configuration is
\* missing; with the configuration missing the ledger file is not written.
C7_OneAttempt ==
  /\ sendCalls <= 1
  /\ requests <= 1
  /\ (PendingRowsOf(pendingFile) = <<>> \/ ConfigMissing) =>
       (sendCalls = 0 /\ requests = 0)
  /\ ConfigMissing => (updateCalls = 0 /\ ledgerFile = ledgerBefore)

C7_Witness ==
  /\ pc = "exited"
  /\ ~env.set
  /\ PendingRowsOf(pendingFile) # <<>>
  /\ ledgerBefore.exists
  /\ requests = 0

\* One character escaped on its own.
EscapeChar(c) ==
  IF c = "&" THEN AmpEntity
  ELSE IF c = "<" THEN LtEntity
  ELSE IF c = ">" THEN GtEntity
  ELSE <<c>>

RECURSIVE Charwise(_)
Charwise(t) ==
  IF t = <<>> THEN <<>> ELSE EscapeChar(Head(t)) \o Charwise(Tail(t))

HasSpecial(t) == \E i \in 1..Len(t) : t[i] \in {"&", "<", ">"}
AmpAmp == <<"&", "a", "m", "p", ";", "a", "m", "p", ";">>

EscapeContains ==
  /\ Contains(text, <<"&">>) => Contains(escaped, AmpEntity)
  /\ Contains(text, <<"<">>) => Contains(escaped, LtEntity)
  /\ Contains(text, <<">">>) => Contains(escaped, GtEntity)
  /\ ~HasSpecial(text) => escaped = text

\* C8 as stated: the output has the entities, is the input when the input
\* has none of the three characters, and never contains '&amp;amp;'.
C8_Original ==
  escDone => (EscapeContains /\ ~Contains(escaped, AmpAmp))

\* C8 amended: the output has the entities, is the input when the input has
\* none of the three characters, and is the input with each of its characters
\* escaped once, so '&amp;amp;' is in the output only if '&amp;' is in the
\* input.
C8_EscapedOnce ==
  escDone =>
    /\ EscapeContains
    /\ escaped = Charwise(text)
    /\ Contains(escaped, AmpAmp) => Contains(text, AmpEntity)

C8_Witness ==
  /\ escDone
  /\ text = <<"<", "&", "a", ">">>
  /\ escaped = LtEntity \o AmpEntity \o <<"a">> \o GtEntity

\* C9: in every paper block the separator precedes the date segment only if
\* a journal segment was emitted; without one the date segment follows the
\* title line directly.
C9_SeparatorOnlyAfterSegment ==
  fmtDone =>
    \A i \in 1..Len(fmtPapers) :
      LET t == fmtMessage.blocks[3 + i].text
          p == fmtPapers[i]
          head == <<"*">> \o escape_slack_text(p.authors) \o <<"*", "\n", "_">>
                  \o escape_slack_text(p.title) \o <<"_", "\n">>
      IN  /\ Contains(t, Separator) => Contains(t, DocEmoji)
          /\ (~Contains(t, DocEmoji) /\ p.publication_date # <<>>) =>
               t = head \o DateEmoji \o p.publication_date

\* C10: read_papers_to_notify returns the rows of the pending file, each as
\* often as it is in the file, in non-increasing lexical order of
\* publication_date, so the rows with an empty date come last; an absent
\* file gives the empty sequence.
C10_SortedPermutation ==
  pc # "start" =>
    LET rows == PendingRowsOf(pendingFile)
        Count(q, r) == Cardinality({i \in 1..Len(q) : q[i] = r})
    IN  /\ Len(papers) = Len(rows)
        /\ \A i \in 1..Len(rows) : Count(papers, rows[i]) = Count(rows, rows[i])
        /\ \A i \in 1..Len(papers) : \A j \in (i + 1)..Len(papers) :
             /\ ~StrLess(papers[i].publication_date, papers[j].publication_date)
             /\ papers[i].publication_date = <<>> =>
                  papers[j].publication_date = <<>>
        /\ ~pendingFile.exists => papers = <<>>

C10_Witness ==
  /\ pc = "read"
  /\ Len(papers) = 3
  /\ [i \in 1..3 |-> pendingFile.rows[i].publication_date]
       = <<DatePool[2], DatePool[3], DatePool[1]>>
  /\ [i \in 1..3 |-> papers[i].publication_date]
       = <<DatePool[3], DatePool[2], DatePool[1]>>

====
